---- MODULE Spec2Model ----
(***************************************************************************)
(* A model of the torchgfn core: the function estimators of                *)
(* gfn/estimators.py, the Trajectory Balance and Log Partition Variance    *)
(* losses of gfn/gflownet/trajectory_balance.py and the distribution       *)
(* wrappers of gfn/utils/distributions.py.                                 *)
(*                                                                         *)
(* Four specifications share the module, one per component:                *)
(*   SpecEst   an estimator object and the calls made on it                *)
(*   SpecLogZ  a LogZEstimator, named_parameters and load_state_dict       *)
(*   SpecLoss  the two losses applied to a batch of trajectory scores      *)
(*   SpecDist  CategoricalIndexes and UnsqueezedCategorical                *)
(* Each leaves the variables of the other components unchanged.            *)
(***************************************************************************)
EXTENDS Integers, Sequences, FiniteSets, TLC

VARIABLES
    \* ---- estimators.py: one FunctionEstimator object
    kind,                   \* its class: "edge", "state" or "prob"
    env,                    \* self.env
    accepted,               \* the last dimensions a "prob" subclass accepts
    output_dim_is_checked,  \* self.output_dim_is_checked
    lastCall,               \* what the latest __call__ did
    checkRuns,              \* how often check_output_dim was entered
    checkSuccesses,         \* how often it returned without raising
    tpdCalls,               \* how often to_probability_distribution ran
    nCalls,                 \* number of __call__s made so far
    \* ---- estimators.py: one LogZEstimator object
    tensor,                 \* self.tensor
    named,                  \* what the latest named_parameters() returned
    lastOp,                 \* the latest operation on the LogZEstimator
    \* ---- trajectory_balance.py: a batch of scores and the two losses
    scores,                 \* the scores get_trajectories_scores returned
    logZ,                   \* TBGFlowNet.logZ
    lossResult,             \* what the latest loss() call did
    \* ---- distributions.py: one CategoricalIndexes object
    node_indexes,           \* self.node_indexes
    ciBatch,                \* probs.shape[0]
    ciDrawn,                \* the flat categories the latest sample() drew
    ciSample,               \* the index pairs the latest sample() returned
    ciLogProb,              \* what the latest log_prob(sample) did
    \* ---- distributions.py: one UnsqueezedCategorical object
    batch_shape,            \* self._batch_shape
    sample_shape,           \* the sample_shape of the latest sample()
    ucDrawn,                \* what Categorical.sample returned inside it
    ucSample,               \* what the latest sample() did
    ucArg,                  \* the tensor handed to the latest log_prob()
    ucLogProb               \* what the latest log_prob() did

estVars == <<kind, env, accepted, output_dim_is_checked, lastCall,
             checkRuns, checkSuccesses, tpdCalls, nCalls>>

logzVars == <<tensor, named, lastOp>>

lossVars == <<scores, logZ, lossResult>>

ciVars == <<node_indexes, ciBatch, ciDrawn, ciSample, ciLogProb>>

ucVars == <<batch_shape, sample_shape, ucDrawn, ucSample, ucArg, ucLogProb>>

vars == <<estVars, logzVars, lossVars, ciVars, ucVars>>

-----------------------------------------------------------------------------
(* Bounds *)

MaxCalls == 3      \* calls made on one estimator
MaxDim == 3        \* last dimensions of module outputs, and n_actions, are 1..MaxDim
MaxStates == 2     \* distinct States batches handed to a call
MaxVal == 1        \* distinct payloads of a module output are 0..MaxVal
MaxLen == 2        \* a non-scalar tensor given to a LogZEstimator has 1..MaxLen entries
MaxScore == 1      \* finite scores and logZ values are -MaxScore..MaxScore
MaxBatch == 3      \* trajectories in a batch
MaxShift == 2      \* constants added to every score are -MaxShift..MaxShift
MaxNodes == 2      \* entries of node_indexes
MaxNodeId == 3     \* the entries of node_indexes are 0..MaxNodeId
MaxRows == 2       \* rows of probs given to a CategoricalIndexes
MaxRank == 1       \* ranks of batch_shape and of sample_shape are 0..MaxRank
MaxShapeDim == 3   \* the dimensions of a tensor shape are 1..MaxShapeDim
MaxElems == 4      \* entries of a tensor that sample() draws
MaxCats == 2       \* categories of an UnsqueezedCategorical

-----------------------------------------------------------------------------
(* gfn/estimators.py *)

Dims == 1..MaxDim

\* The environments an estimator is built over. A DiscreteEnv has n_actions;
\* another Env has it only if its class happens to define it.
Envs ==
    {[discrete |-> TRUE, has_n_actions |-> TRUE, n_actions |-> n] : n \in Dims}
    \cup {[discrete |-> FALSE, has_n_actions |-> FALSE, n_actions |-> 0]}
    \cup {[discrete |-> FALSE, has_n_actions |-> TRUE, n_actions |-> n] : n \in Dims}

\* env.preprocessor applied to a States batch
preprocessor(states) == [preprocessed |-> states]

\* What self.module may return for an input: any last dimension, any payload.
ModuleOutputs(input) ==
    {[input |-> input, dim |-> d, val |-> v] : d \in Dims, v \in 0..MaxVal}

CheckPassed(reads) == [raised |-> FALSE, err |-> "", read_n_actions |-> reads]
CheckRaised(e, reads) == [raised |-> TRUE, err |-> e, read_n_actions |-> reads]
NoCheck == [raised |-> FALSE, err |-> "not run", read_n_actions |-> FALSE]

\* A slip: the dimension is compared before the environment is tested.
LogEdgeFlowEstimator_check_output_dim_DimFirst(e, module_output) ==
    IF ~e.has_n_actions THEN CheckRaised("AttributeError", TRUE)
    ELSE IF module_output.dim # e.n_actions THEN CheckRaised("ValueError", TRUE)
    ELSE IF ~e.discrete THEN CheckRaised("ValueError", TRUE)
    ELSE CheckPassed(TRUE)

LogEdgeFlowEstimator_check_output_dim(e, module_output) ==
    IF ~e.discrete THEN CheckRaised("ValueError", FALSE)
    ELSE IF ~e.has_n_actions THEN CheckRaised("AttributeError", TRUE)
    ELSE IF module_output.dim # e.n_actions THEN CheckRaised("ValueError", TRUE)
    ELSE CheckPassed(TRUE)

LogStateFlowEstimator_check_output_dim(module_output) ==
    IF module_output.dim # 1 THEN CheckRaised("ValueError", FALSE)
    ELSE CheckPassed(FALSE)

\* check_output_dim is abstract in ProbabilityEstimator: a subclass accepts
\* some set of last dimensions and raises on the others.
ProbabilityEstimator_check_output_dim(acc, module_output) ==
    IF module_output.dim \notin acc THEN CheckRaised("ValueError", FALSE)
    ELSE CheckPassed(FALSE)

\* self.check_output_dim, dispatched on the class of the estimator
check_output_dim(k, e, acc, module_output) ==
    CASE k = "edge" -> LogEdgeFlowEstimator_check_output_dim(e, module_output)
      [] k = "state" -> LogStateFlowEstimator_check_output_dim(module_output)
      [] OTHER -> ProbabilityEstimator_check_output_dim(acc, module_output)

NoValue == [none |-> TRUE]

\* A slip: the flag is set without the check having run.
FunctionEstimator__call__Unchecked(flag, chk, states, out) ==
    [outcome |-> "returned", flag |-> TRUE, states |-> states, out |-> out,
     value |-> out, chk |-> NoCheck, checkedAtEntry |-> flag,
     log |-> <<"module">>]

\* A slip: the flag is set before the check, so a raising check leaves it set.
FunctionEstimator__call__FlagFirst(flag, chk, states, out) ==
    IF ~flag /\ chk.raised
    THEN [outcome |-> "raised", flag |-> TRUE, states |-> states, out |-> out,
          value |-> NoValue, chk |-> chk, checkedAtEntry |-> flag,
          log |-> <<"module", "check_output_dim">>]
    ELSE [outcome |-> "returned", flag |-> TRUE, states |-> states, out |-> out,
          value |-> out, chk |-> IF flag THEN NoCheck ELSE chk,
          checkedAtEntry |-> flag,
          log |-> IF flag THEN <<"module">> ELSE <<"module", "check_output_dim">>]

\* FunctionEstimator.__call__ on an estimator whose flag is `flag`, whose module
\* returned `out` and whose check_output_dim(out) would end as `chk`.
FunctionEstimator__call__(flag, chk, states, out) ==
    IF ~flag
    THEN IF chk.raised
         THEN [outcome |-> "raised", flag |-> flag, states |-> states, out |-> out,
               value |-> NoValue, chk |-> chk, checkedAtEntry |-> flag,
               log |-> <<"module", "check_output_dim">>]
         ELSE [outcome |-> "returned", flag |-> TRUE, states |-> states, out |-> out,
               value |-> out, chk |-> chk, checkedAtEntry |-> flag,
               log |-> <<"module", "check_output_dim">>]
    ELSE [outcome |-> "returned", flag |-> flag, states |-> states, out |-> out,
          value |-> out, chk |-> NoCheck, checkedAtEntry |-> flag,
          log |-> <<"module">>]

\* to_probability_distribution is abstract: the distribution it builds is
\* determined by the states and the module output it was given.
to_probability_distribution(states, module_output) ==
    [distribution |-> TRUE, states |-> states, params |-> module_output]

\* A slip: the distribution is built before the shape is validated.
ProbabilityEstimator__call__TpdFirst(flag, chk, states, out) ==
    LET r == FunctionEstimator__call__(flag, chk, states, out)
    IN  [r EXCEPT !.value = IF r.outcome = "raised" THEN NoValue
                            ELSE to_probability_distribution(states, out),
                  !.log = <<"module", "to_probability_distribution">>
                          \o Tail(r.log)]

\* ProbabilityEstimator.__call__
ProbabilityEstimator__call__(flag, chk, states, out) ==
    LET r == FunctionEstimator__call__(flag, chk, states, out)
    IN  IF r.outcome = "raised" THEN r
        ELSE [r EXCEPT !.value = to_probability_distribution(states, r.value),
                       !.log = Append(@, "to_probability_distribution")]

Count(log, what) == Cardinality({i \in DOMAIN log : log[i] = what})

\* The effect of one call, whose result record is r, on the estimator.
Called(r) ==
    /\ output_dim_is_checked' = r.flag
    /\ lastCall' = r
    /\ checkRuns' = checkRuns + Count(r.log, "check_output_dim")
    /\ checkSuccesses' = checkSuccesses
         + (IF Count(r.log, "check_output_dim") = 1 /\ r.outcome = "returned"
            THEN 1 ELSE 0)
    /\ tpdCalls' = tpdCalls + Count(r.log, "to_probability_distribution")
    /\ nCalls' = nCalls + 1
    /\ UNCHANGED <<kind, env, accepted>>
    /\ UNCHANGED <<logzVars, lossVars, ciVars, ucVars>>

\* estimator(states) on a LogEdgeFlowEstimator or a LogStateFlowEstimator
FunctionEstimatorCall ==
    /\ kind \in {"edge", "state"}
    /\ nCalls < MaxCalls
    /\ \E states \in 1..MaxStates :
         \E out \in ModuleOutputs(preprocessor(states)) :
            Called(FunctionEstimator__call__(output_dim_is_checked,
                       check_output_dim(kind, env, accepted, out), states, out))

\* estimator(states) on a ProbabilityEstimator
ProbabilityEstimatorCall ==
    /\ kind = "prob"
    /\ nCalls < MaxCalls
    /\ \E states \in 1..MaxStates :
         \E out \in ModuleOutputs(preprocessor(states)) :
            Called(ProbabilityEstimator__call__(output_dim_is_checked,
                       check_output_dim(kind, env, accepted, out), states, out))

NoCall ==
    [outcome |-> "none", flag |-> FALSE, states |-> 0, out |-> NoValue,
     value |-> NoValue, chk |-> NoCheck, checkedAtEntry |-> FALSE, log |-> <<>>]

\* FunctionEstimator.__init__
EstConstructed ==
    /\ kind \in {"edge", "state", "prob"}
    /\ env \in Envs
    /\ accepted \in IF kind = "prob" THEN SUBSET Dims ELSE {{}}
    /\ output_dim_is_checked = FALSE
    /\ lastCall = NoCall
    /\ checkRuns = 0
    /\ checkSuccesses = 0
    /\ tpdCalls = 0
    /\ nCalls = 0

EstIdle ==
    /\ kind = "state"
    /\ env = [discrete |-> TRUE, has_n_actions |-> TRUE, n_actions |-> 1]
    /\ accepted = {}
    /\ output_dim_is_checked = FALSE
    /\ lastCall = NoCall
    /\ checkRuns = 0
    /\ checkSuccesses = 0
    /\ tpdCalls = 0
    /\ nCalls = 0

-----------------------------------------------------------------------------
(* gfn/estimators.py: LogZEstimator *)

LogZShapes == {<<>>} \cup {<<d>> : d \in 1..MaxLen}

Tensors == [shape : LogZShapes, requires_grad : BOOLEAN, val : 0..MaxVal]

\* LogZEstimator.__init__: the assertion admits scalar tensors only.
LogZEstimator__init__(t) ==
    IF t.shape # <<>> THEN [ok |-> FALSE, tensor |-> t]
    ELSE [ok |-> TRUE, tensor |-> [t EXCEPT !.requires_grad = TRUE]]

\* LogZEstimator.named_parameters
LogZEstimator_named_parameters(t) == [k \in {"logZ"} |-> t]

\* The state dicts a caller may hand to load_state_dict.
StateDicts == UNION {[D -> Tensors] : D \in SUBSET {"logZ", "extra"}}

\* LogZEstimator.load_state_dict: the tensor the object holds afterwards.
LogZEstimator_load_state_dict(t, state_dict) ==
    IF "logZ" \in DOMAIN state_dict
    THEN [ok |-> TRUE, tensor |-> state_dict["logZ"]]
    ELSE [ok |-> FALSE, tensor |-> t]

NoDict == [k \in {} |-> 0]

LogZConstructed ==
    /\ tensor \in {LogZEstimator__init__(t).tensor :
                      t \in {u \in Tensors : LogZEstimator__init__(u).ok}}
    /\ named = NoDict
    /\ lastOp = "__init__"

LogZIdle ==
    /\ tensor = [shape |-> <<>>, requires_grad |-> TRUE, val |-> 0]
    /\ named = NoDict
    /\ lastOp = "__init__"

NamedParameters ==
    /\ named' = LogZEstimator_named_parameters(tensor)
    /\ lastOp' = "named_parameters"
    /\ UNCHANGED tensor
    /\ UNCHANGED <<estVars, lossVars, ciVars, ucVars>>

LoadStateDict ==
    /\ \E state_dict \in StateDicts :
         LET r == LogZEstimator_load_state_dict(tensor, state_dict)
         IN  /\ tensor' = r.tensor
             /\ lastOp' = IF r.ok THEN "load_state_dict" ELSE "KeyError"
    /\ UNCHANGED named
    /\ UNCHANGED <<estVars, lossVars, ciVars, ucVars>>

-----------------------------------------------------------------------------
(* gfn/gflownet/trajectory_balance.py *)

(* Scores and logZ are floating-point numbers. The finite ones are modelled    *)
(* as exact rationals n/d in lowest terms (rounding is not modelled); the      *)
(* three special values of the format, +inf, -inf and NaN, are kept, with the  *)
(* arithmetic the format gives them.                                           *)

Abs(x) == IF x < 0 THEN -x ELSE x

RECURSIVE GCD(_, _)
GCD(a, b) == IF b = 0 THEN a ELSE GCD(b, a % b)

Fin(n, d) ==
    LET g == GCD(Abs(n), Abs(d))
        sgn == IF d < 0 THEN -1 ELSE 1
    IN  [k |-> "fin", n |-> sgn * (n \div g), d |-> sgn * (d \div g)]

PInf == [k |-> "pinf", n |-> 0, d |-> 1]
NInf == [k |-> "ninf", n |-> 0, d |-> 1]
NaN == [k |-> "nan", n |-> 0, d |-> 1]
Zero == Fin(0, 1)

IsNaN(a) == a.k = "nan"
IsFinite(a) == a.k = "fin"

ExtNeg(a) ==
    CASE a.k = "fin" -> Fin(-a.n, a.d)
      [] a.k = "pinf" -> NInf
      [] a.k = "ninf" -> PInf
      [] OTHER -> NaN

ExtAdd(a, b) ==
    CASE a.k = "nan" \/ b.k = "nan" -> NaN
      [] a.k = "fin" /\ b.k = "fin" -> Fin(a.n * b.d + b.n * a.d, a.d * b.d)
      [] a.k = "fin" -> b
      [] b.k = "fin" -> a
      [] a.k = b.k -> a
      [] OTHER -> NaN

ExtSub(a, b) == ExtAdd(a, ExtNeg(b))

\* pow(2)
ExtSq(a) ==
    CASE a.k = "nan" -> NaN
      [] a.k = "fin" -> Fin(a.n * a.n, a.d * a.d)
      [] OTHER -> PInf

\* division by an element count m >= 0
ExtDiv(a, m) ==
    CASE a.k = "nan" -> NaN
      [] a.k = "fin" /\ m = 0 ->
            IF a.n = 0 THEN NaN ELSE IF a.n > 0 THEN PInf ELSE NInf
      [] a.k = "fin" -> Fin(a.n, a.d * m)
      [] OTHER -> a

RECURSIVE ExtSum(_)
ExtSum(t) == IF t = <<>> THEN Zero ELSE ExtAdd(t[1], ExtSum(Tail(t)))

\* Tensor.mean(): the sum over the element count; NaN for an empty tensor.
mean(t) == ExtDiv(ExtSum(t), Len(t))

Returned(which, loss) == [which |-> which, outcome |-> "returned", loss |-> loss]
RaisedNaN(which, loss) == [which |-> which, outcome |-> "raised", loss |-> loss]
NoLoss == [which |-> "none", outcome |-> "none", loss |-> Zero]

\* A slip: logZ is subtracted from the scores.
TBGFlowNet_loss_Minus(sc, z) ==
    LET loss == mean([i \in DOMAIN sc |-> ExtSq(ExtSub(sc[i], z))])
    IN  IF IsNaN(loss) THEN RaisedNaN("TB", loss) ELSE Returned("TB", loss)

\* A slip: the NaN test is missing.
TBGFlowNet_loss_NoNaNTest(sc, z) ==
    Returned("TB", mean([i \in DOMAIN sc |-> ExtSq(ExtAdd(sc[i], z))]))

\* TBGFlowNet.loss, given the scores of the batch and self.logZ
TBGFlowNet_loss(sc, z) ==
    LET loss == mean([i \in DOMAIN sc |-> ExtSq(ExtAdd(sc[i], z))])
    IN  IF IsNaN(loss) THEN RaisedNaN("TB", loss) ELSE Returned("TB", loss)

\* A slip: the scores are not centred.
LogPartitionVarianceGFlowNet_loss_Uncentred(sc) ==
    LET loss == mean([i \in DOMAIN sc |-> ExtSq(sc[i])])
    IN  IF IsNaN(loss) THEN RaisedNaN("LPV", loss) ELSE Returned("LPV", loss)

\* LogPartitionVarianceGFlowNet.loss, given the scores of the batch
LogPartitionVarianceGFlowNet_loss(sc) ==
    LET m == mean(sc)
        loss == mean([i \in DOMAIN sc |-> ExtSq(ExtSub(sc[i], m))])
    IN  IF IsNaN(loss) THEN RaisedNaN("LPV", loss) ELSE Returned("LPV", loss)

ScoreValues == {Fin(n, 1) : n \in -MaxScore..MaxScore} \cup {PInf, NInf, NaN}

Batches == UNION {[1..n -> ScoreValues] : n \in 0..MaxBatch}

\* A batch of trajectories has been scored and logZ holds some value.
LossReady ==
    /\ scores \in Batches
    /\ logZ \in ScoreValues
    /\ lossResult = NoLoss

LossIdle ==
    /\ scores = <<>>
    /\ logZ = Zero
    /\ lossResult = NoLoss

TBLoss ==
    /\ lossResult' = TBGFlowNet_loss(scores, logZ)
    /\ UNCHANGED <<scores, logZ>>
    /\ UNCHANGED <<estVars, logzVars, ciVars, ucVars>>

LPVLoss ==
    /\ lossResult' = LogPartitionVarianceGFlowNet_loss(scores)
    /\ UNCHANGED <<scores, logZ>>
    /\ UNCHANGED <<estVars, logzVars, ciVars, ucVars>>

-----------------------------------------------------------------------------
(* gfn/utils/distributions.py: CategoricalIndexes *)

IsSorted(b) == \A i \in 1..(Len(b) - 1) : b[i] <= b[i + 1]

\* torch.bucketize(v, boundaries), right=False: the index i with
\* boundaries[i-1] < v <= boundaries[i], counted from 0. The boundaries must
\* be sorted; on others the result is unspecified.
bucketize(v, boundaries) ==
    IF IsSorted(boundaries)
    THEN {Cardinality({i \in DOMAIN boundaries : boundaries[i] < v})}
    ELSE 0..Len(boundaries)

\* CategoricalIndexes.sample, given the categories Categorical.sample drew,
\* one per row of probs.
CategoricalIndexes_sample(nodes, samples) ==
    LET n == Len(nodes)
        out == [b \in DOMAIN samples |-> <<samples[b] \div n, samples[b] % n>>]
        flat == [i \in 1..(2 * Len(out)) |-> out[(i + 1) \div 2][2 - (i % 2)]]
        selected == [i \in DOMAIN flat |-> nodes[flat[i] + 1]]
    IN  [b \in DOMAIN out |-> <<selected[2 * b - 1], selected[2 * b]>>]

\* The flat value log_prob computes for one index pair, before bucketize.
Encoded(nodes, pair) == pair[1] * Len(nodes) + pair[2]

\* Categorical.log_prob on flat categories: the categories whose
\* log-probabilities are returned, or an error when one is not a category.
Categorical_log_prob_of(nCategories, cats) ==
    IF \A b \in DOMAIN cats : cats[b] \in 0..(nCategories - 1)
    THEN [outcome |-> "returned", categories |-> cats]
    ELSE [outcome |-> "raised", categories |-> cats]

\* CategoricalIndexes.log_prob: every way the call may end.
CategoricalIndexes_log_prob(nodes, value) ==
    LET n == Len(nodes)
        encoded == [b \in DOMAIN value |-> Encoded(nodes, value[b])]
        bucketized == {c \in [DOMAIN value -> 0..n] :
                          \A b \in DOMAIN value : c[b] \in bucketize(encoded[b], nodes)}
    IN  {Categorical_log_prob_of(n * n, c) : c \in bucketized}

NoLogProb == [outcome |-> "none", categories |-> <<>>]

\* CategoricalIndexes.__init__: probs has ciBatch rows of n * n columns.
CIConstructed ==
    /\ node_indexes \in UNION {[1..n -> 0..MaxNodeId] : n \in 1..MaxNodes}
    /\ ciBatch \in 1..MaxRows
    /\ ciDrawn = <<>>
    /\ ciSample = <<>>
    /\ ciLogProb = NoLogProb

CIIdle ==
    /\ node_indexes = <<0>>
    /\ ciBatch = 1
    /\ ciDrawn = <<>>
    /\ ciSample = <<>>
    /\ ciLogProb = NoLogProb

\* dist.sample()
CISample ==
    /\ \E samples \in [1..ciBatch -> 0..(Len(node_indexes) * Len(node_indexes) - 1)] :
         /\ ciDrawn' = samples
         /\ ciSample' = CategoricalIndexes_sample(node_indexes, samples)
    /\ ciLogProb' = NoLogProb
    /\ UNCHANGED <<node_indexes, ciBatch>>
    /\ UNCHANGED <<estVars, logzVars, lossVars, ucVars>>

\* dist.log_prob(sample), on the sample drawn last
CILogProb ==
    /\ ciSample # <<>>
    /\ ciLogProb' \in CategoricalIndexes_log_prob(node_indexes, ciSample)
    /\ UNCHANGED <<node_indexes, ciBatch, ciDrawn, ciSample>>
    /\ UNCHANGED <<estVars, logzVars, lossVars, ucVars>>

-----------------------------------------------------------------------------
(* gfn/utils/distributions.py: UnsqueezedCategorical *)

(* A tensor is its shape and its entries in row-major order. *)

RECURSIVE Prod(_)
Prod(shape) == IF shape = <<>> THEN 1 ELSE shape[1] * Prod(Tail(shape))

Shapes(rank) == UNION {[1..r -> 1..MaxShapeDim] : r \in 0..rank}

TensorsOf(shape, values) ==
    {[shape |-> shape, data |-> d] : d \in [1..Prod(shape) -> values]}

NoTensor == [shape |-> <<>>, data |-> <<>>]

\* Tensor.unsqueeze(-1)
unsqueeze(t) == [t EXCEPT !.shape = Append(@, 1)]

\* Tensor.squeeze(-1): drops the last dimension when it is 1
squeeze(t) ==
    IF Len(t.shape) > 0 /\ t.shape[Len(t.shape)] = 1
    THEN [t EXCEPT !.shape = SubSeq(@, 1, Len(@) - 1)]
    ELSE t

Max(a, b) == IF a >= b THEN a ELSE b

\* A shape padded on the left with 1s to rank r, as broadcasting aligns it.
Pad(shape, r) ==
    [j \in 1..r |-> IF j <= r - Len(shape) THEN 1 ELSE shape[j - (r - Len(shape))]]

Broadcastable(a, b) ==
    LET r == Max(Len(a), Len(b))
    IN  \A j \in 1..r :
           Pad(a, r)[j] = Pad(b, r)[j] \/ Pad(a, r)[j] = 1 \/ Pad(b, r)[j] = 1

BroadcastShape(a, b) ==
    LET r == Max(Len(a), Len(b))
    IN  [j \in 1..r |-> IF Pad(a, r)[j] = 1 THEN Pad(b, r)[j] ELSE Pad(a, r)[j]]

Stride(shape, j) == Prod(SubSeq(shape, j + 1, Len(shape)))

RECURSIVE Offset(_, _, _, _)
\* The row-major offset, in an operand of shape `operand`, of the entry that
\* broadcasting places at offset f of a result of shape `result`.
Offset(f, result, operand, j) ==
    IF j > Len(result) THEN 0
    ELSE LET p == Pad(operand, Len(result))
             c == IF p[j] = 1 THEN 0 ELSE (f \div Stride(result, j)) % result[j]
         IN  c * Stride(p, j) + Offset(f, result, operand, j + 1)

UCReturned(t) == [outcome |-> "returned", err |-> "", value |-> t]
UCRaised(e) == [outcome |-> "raised", err |-> e, value |-> NoTensor]
UCNone == [outcome |-> "none", err |-> "", value |-> NoTensor]

\* Categorical.log_prob(value) of a distribution of batch shape bs: value is
\* broadcast against bs, and each entry of the result is the log-probability
\* that one row of the distribution gives one category.
Categorical_log_prob(bs, value) ==
    IF ~Broadcastable(value.shape, bs) THEN UCRaised("ValueError")
    ELSE LET rs == BroadcastShape(value.shape, bs)
         IN  UCReturned(
               [shape |-> rs,
                data |-> [f \in 1..Prod(rs) |->
                    [row |-> Offset(f - 1, rs, bs, 1),
                     category |-> value.data[Offset(f - 1, rs, value.shape, 1) + 1]]]])

\* UnsqueezedCategorical.sample, given what Categorical.sample drew
UnsqueezedCategorical_sample(bs, ss, drawn) ==
    LET out == unsqueeze(drawn)
    IN  IF out.shape # ss \o bs \o <<1>> THEN UCRaised("AssertionError")
        ELSE UCReturned(out)

\* A slip: the sample is handed on with its last dimension still in place.
UnsqueezedCategorical_log_prob_NoSqueeze(bs, sample) ==
    IF sample.shape = <<>> THEN UCRaised("IndexError")
    ELSE IF sample.shape[Len(sample.shape)] # 1 THEN UCRaised("AssertionError")
    ELSE Categorical_log_prob(bs, sample)

\* UnsqueezedCategorical.log_prob
UnsqueezedCategorical_log_prob(bs, sample) ==
    IF sample.shape = <<>> THEN UCRaised("IndexError")
    ELSE IF sample.shape[Len(sample.shape)] # 1 THEN UCRaised("AssertionError")
    ELSE Categorical_log_prob(bs, squeeze(sample))

Categories == 0..(MaxCats - 1)

\* Categorical.__init__: any batch shape
UCConstructed ==
    /\ batch_shape \in Shapes(MaxRank)
    /\ sample_shape = <<>>
    /\ ucDrawn = NoTensor
    /\ ucSample = UCNone
    /\ ucArg = NoTensor
    /\ ucLogProb = UCNone

UCIdle ==
    /\ batch_shape = <<>>
    /\ sample_shape = <<>>
    /\ ucDrawn = NoTensor
    /\ ucSample = UCNone
    /\ ucArg = NoTensor
    /\ ucLogProb = UCNone

\* dist.sample(sample_shape)
UCSample ==
    /\ \E ss \in {x \in Shapes(MaxRank) : Prod(x \o batch_shape) <= MaxElems} :
         \E drawn \in TensorsOf(ss \o batch_shape, Categories) :
            /\ sample_shape' = ss
            /\ ucDrawn' = drawn
            /\ ucSample' = UnsqueezedCategorical_sample(batch_shape, ss, drawn)
    /\ ucArg' = NoTensor
    /\ ucLogProb' = UCNone
    /\ UNCHANGED batch_shape
    /\ UNCHANGED <<estVars, logzVars, lossVars, ciVars>>

\* dist.log_prob(sample), on the sample drawn last
UCLogProbOfSample ==
    /\ ucSample.outcome = "returned"
    /\ ucArg' = ucSample.value
    /\ ucLogProb' = UnsqueezedCategorical_log_prob(batch_shape, ucSample.value)
    /\ UNCHANGED <<batch_shape, sample_shape, ucDrawn, ucSample>>
    /\ UNCHANGED <<estVars, logzVars, lossVars, ciVars>>

\* dist.log_prob(t) on a tensor of categories the caller built, of any shape
UCLogProb ==
    /\ \E shape \in Shapes(MaxRank + 1) :
         \E c \in Categories :
            LET t == [shape |-> shape, data |-> [i \in 1..Prod(shape) |-> c]]
            IN  /\ ucArg' = t
                /\ ucLogProb' = UnsqueezedCategorical_log_prob(batch_shape, t)
    /\ sample_shape' = <<>>
    /\ ucDrawn' = NoTensor
    /\ ucSample' = UCNone
    /\ UNCHANGED batch_shape
    /\ UNCHANGED <<estVars, logzVars, lossVars, ciVars>>

-----------------------------------------------------------------------------
(* Specifications *)

InitEst == EstConstructed /\ LogZIdle /\ LossIdle /\ CIIdle /\ UCIdle

NextEst ==
    \/ FunctionEstimatorCall
    \/ ProbabilityEstimatorCall

SpecEst == InitEst /\ [][NextEst]_vars

InitLogZ == EstIdle /\ LogZConstructed /\ LossIdle /\ CIIdle /\ UCIdle

NextLogZ ==
    \/ NamedParameters
    \/ LoadStateDict

SpecLogZ == InitLogZ /\ [][NextLogZ]_vars

InitLoss == EstIdle /\ LogZIdle /\ LossReady /\ CIIdle /\ UCIdle

NextLoss ==
    \/ TBLoss
    \/ LPVLoss

SpecLoss == InitLoss /\ [][NextLoss]_vars

InitCatIdx == EstIdle /\ LogZIdle /\ LossIdle /\ CIConstructed /\ UCIdle

NextCatIdx ==
    \/ CISample
    \/ CILogProb

SpecCatIdx == InitCatIdx /\ [][NextCatIdx]_vars

InitUnsq == EstIdle /\ LogZIdle /\ LossIdle /\ CIIdle /\ UCConstructed

NextUnsq ==
    \/ UCSample
    \/ UCLogProbOfSample
    \/ UCLogProb

SpecUnsq == InitUnsq /\ [][NextUnsq]_vars

-----------------------------------------------------------------------------
(* Claims about the estimators, checked under SpecEst *)

CheckRan(c) == Count(c.log, "check_output_dim") = 1

Passes(out) == ~check_output_dim(kind, env, accepted, out).raised

\* C1 as stated: every output tensor a call returns, the outputs of the
\* second and later calls included, satisfies the estimator's
\* check_output_dim.
C1_EveryReturnedOutputPasses ==
    lastCall.outcome = "returned" => Passes(lastCall.out)

\* C1 as amended: the output returned by a call that found
\* output_dim_is_checked False satisfies the estimator's check_output_dim;
\* outputs of calls made after the flag was set are returned unvalidated.
C1_OutputOfCheckingCallPasses ==
    (lastCall.outcome = "returned" /\ ~lastCall.checkedAtEntry)
        => (CheckRan(lastCall) /\ Passes(lastCall.out))

\* A call that validated and returned its output, after an earlier call raised.
C1_Witness ==
    /\ lastCall.outcome = "returned"
    /\ ~lastCall.checkedAtEntry
    /\ nCalls >= 2
    /\ kind \in {"edge", "state"}

\* C2: LogEdgeFlowEstimator.check_output_dim raises ValueError exactly when
\* the environment is not discrete or the output's last dimension differs
\* from env.n_actions, and a non-discrete environment is rejected without
\* env.n_actions having been read.
C2_EdgeCheckRaisesExactly ==
    (kind = "edge" /\ CheckRan(lastCall)) =>
        /\ lastCall.chk.raised
             <=> (~env.discrete \/ lastCall.out.dim # env.n_actions)
        /\ lastCall.chk.raised => lastCall.chk.err = "ValueError"
        /\ lastCall.chk.raised <=> lastCall.outcome = "raised"
        /\ ~env.discrete => ~lastCall.chk.read_n_actions

\* A non-discrete environment that does define n_actions, matching the
\* output's last dimension, was rejected.
C2_Witness ==
    /\ kind = "edge"
    /\ CheckRan(lastCall)
    /\ ~env.discrete
    /\ env.has_n_actions
    /\ lastCall.out.dim = env.n_actions
    /\ lastCall.outcome = "raised"

\* C9: output_dim_is_checked starts False, is set only by a call whose
\* check_output_dim returned without raising and never goes back to False; a
\* call whose check raises returns nothing and leaves the flag False, so the
\* next call runs the check again; the check succeeds at most once.
C9_FlagSetOnceByPassingCheck ==
    /\ ~output_dim_is_checked
    /\ [][/\ output_dim_is_checked => output_dim_is_checked'
          /\ (~output_dim_is_checked /\ output_dim_is_checked')
                => /\ lastCall'.outcome = "returned"
                   /\ CheckRan(lastCall')
                   /\ ~lastCall'.chk.raised
                   /\ checkSuccesses' = checkSuccesses + 1
          /\ (nCalls' # nCalls /\ lastCall'.chk.raised)
                => /\ lastCall'.outcome = "raised"
                   /\ lastCall'.value = NoValue
                   /\ ~output_dim_is_checked'
          /\ (nCalls' # nCalls /\ ~output_dim_is_checked)
                => checkRuns' = checkRuns + 1
          /\ (nCalls' # nCalls /\ output_dim_is_checked)
                => checkRuns' = checkRuns
          /\ checkSuccesses' <= 1]_vars

\* A check raised, a later one passed, and a call was made after that.
C9_Witness ==
    /\ checkRuns >= 2
    /\ checkSuccesses = 1
    /\ lastCall.checkedAtEntry
    /\ lastCall.outcome = "returned"

PositionsOf(log, what) == {i \in DOMAIN log : log[i] = what}

\* C10: a ProbabilityEstimator call returns to_probability_distribution of
\* the same states and of that call's module output, never the raw output;
\* the shape validation precedes it, and when check_output_dim raises,
\* to_probability_distribution is not invoked and nothing is returned.
C10_ProbabilityCallWrapsValidatedOutput ==
    (kind = "prob" /\ lastCall.outcome # "none") =>
        /\ lastCall.out.input = preprocessor(lastCall.states)
        /\ lastCall.outcome = "returned" =>
             /\ lastCall.value
                  = to_probability_distribution(lastCall.states, lastCall.out)
             /\ lastCall.value # lastCall.out
             /\ Count(lastCall.log, "to_probability_distribution") = 1
        /\ lastCall.outcome = "raised" =>
             /\ Count(lastCall.log, "to_probability_distribution") = 0
             /\ lastCall.value = NoValue
        /\ \A i \in PositionsOf(lastCall.log, "check_output_dim") :
             \A j \in PositionsOf(lastCall.log, "to_probability_distribution") :
                i < j

\* A probability estimator whose first call was rejected and whose next call
\* returned a distribution.
C10_Witness ==
    /\ kind = "prob"
    /\ nCalls >= 2
    /\ checkRuns >= 2
    /\ lastCall.outcome = "returned"
    /\ lastCall.value.distribution

-----------------------------------------------------------------------------
(* The claim about LogZEstimator, checked under SpecLogZ *)

\* C8: after construction and after any sequence of named_parameters and
\* load_state_dict calls, the tensor a LogZEstimator holds has shape () and
\* requires_grad True, and named_parameters returns exactly one entry, keyed
\* "logZ", holding that tensor.
C8_LogZScalarTrainable ==
    /\ tensor.shape = <<>>
    /\ tensor.requires_grad
    /\ lastOp = "named_parameters" =>
          (DOMAIN named = {"logZ"} /\ named["logZ"] = tensor)

-----------------------------------------------------------------------------
(* Claims about the losses, checked under SpecLoss *)

AllFinite(sc) == \A i \in DOMAIN sc : IsFinite(sc[i])

RECURSIVE IntSum(_)
IntSum(t) == IF t = <<>> THEN 0 ELSE t[1] + IntSum(Tail(t))

\* The integer numerators of finite integral scores.
Ints(sc) == [i \in DOMAIN sc |-> sc[i].n]

Shift(sc, c) == [i \in DOMAIN sc |-> ExtAdd(sc[i], Fin(c, 1))]

C3_Post ==
    lossResult.which = "TB" =>
        /\ (Len(scores) > 0 /\ AllFinite(scores) /\ IsFinite(logZ))
              => lossResult.outcome = "returned"
        /\ lossResult.outcome = "returned" =>
              /\ Len(scores) > 0
              /\ lossResult.loss.k \in {"fin", "pinf"}
              /\ lossResult.loss.k = "fin" => lossResult.loss.n >= 0
              /\ (AllFinite(scores) /\ IsFinite(logZ)) =>
                    /\ lossResult.loss.k = "fin"
                    /\ lossResult.loss.n * Len(scores) =
                          lossResult.loss.d
                          * IntSum([i \in DOMAIN scores |->
                                (scores[i].n + logZ.n) * (scores[i].n + logZ.n)])
              /\ lossResult.loss = Zero
                    <=> \A i \in DOMAIN scores : scores[i] = ExtNeg(logZ)

\* C3: TBGFlowNet.loss returns the mean over the batch of (score_i + logZ)^2:
\* the value it returns for a batch is >= 0, and is 0 exactly when every
\* score equals -logZ; computing it changes neither logZ nor the scores.
C3_TBLossIsMeanSquare ==
    []C3_Post /\ [][scores' = scores /\ logZ' = logZ]_vars

\* The loss was returned as 0 for a batch of several trajectories.
C3_Witness ==
    /\ lossResult.which = "TB"
    /\ lossResult.outcome = "returned"
    /\ Len(scores) >= 2
    /\ lossResult.loss = Zero
    /\ logZ # Zero

C4_Post ==
    lossResult.which = "LPV" =>
        /\ (Len(scores) > 0 /\ AllFinite(scores))
              => lossResult.outcome = "returned"
        /\ lossResult.outcome = "returned" =>
              /\ Len(scores) > 0
              /\ AllFinite(scores)
              /\ lossResult.loss.k = "fin"
              /\ LET n == Len(scores)
                     S == IntSum(Ints(scores))
                 IN  lossResult.loss.n * n * n * n =
                        lossResult.loss.d
                        * IntSum([i \in DOMAIN scores |->
                              (n * scores[i].n - S) * (n * scores[i].n - S)])
              /\ lossResult.loss = Zero
                    <=> \A i, j \in DOMAIN scores : scores[i] = scores[j]
              /\ Len(scores) = 1 => lossResult.loss = Zero
        /\ \A c \in -MaxShift..MaxShift :
              LogPartitionVarianceGFlowNet_loss(Shift(scores, c)) = lossResult

\* C4: LogPartitionVarianceGFlowNet.loss returns the mean over the batch of
\* (score_i - mean(scores))^2, the population variance of the scores: the
\* value is 0 exactly when all scores are equal (so for a batch of one), is
\* unchanged when one constant is added to every score, and no logZ enters it.
C4_LPVLossIsVariance ==
    []C4_Post /\ [][scores' = scores /\ logZ' = logZ]_vars

\* A non-zero variance was returned for scores whose mean is not an integer.
C4_Witness ==
    /\ lossResult.which = "LPV"
    /\ lossResult.outcome = "returned"
    /\ Len(scores) = 3
    /\ lossResult.loss # Zero
    /\ lossResult.loss.d # 1
    /\ IsNaN(logZ)

HasNaN(sc) == \E i \in DOMAIN sc : IsNaN(sc[i])

\* C5: neither loss ever returns NaN: a call whose computed loss is NaN (a
\* NaN score, a NaN logZ for the Trajectory Balance loss, an empty batch)
\* raises ValueError instead of returning.
C5_LossNeverReturnsNaN ==
    lossResult.which # "none" =>
        /\ lossResult.outcome = "returned" => ~IsNaN(lossResult.loss)
        /\ lossResult.outcome = "raised" <=> IsNaN(lossResult.loss)
        /\ (HasNaN(scores) \/ Len(scores) = 0) => lossResult.outcome = "raised"
        /\ (lossResult.which = "TB" /\ IsNaN(logZ))
              => lossResult.outcome = "raised"

\* The Trajectory Balance loss of an empty batch raised.
C5_Witness ==
    /\ lossResult.which = "TB"
    /\ lossResult.outcome = "raised"
    /\ scores = <<>>
    /\ IsFinite(logZ)

-----------------------------------------------------------------------------
(* The claim about CategoricalIndexes, checked under SpecCatIdx *)

\* C6: for every node_indexes vector, log_prob maps the pair that sample
\* produced for a flat category k back to k, so log_prob of a sampled pair is
\* the log-probability of the category that was actually drawn.
C6_LogProbOfSampleIsDrawnCategory ==
    ciLogProb.outcome # "none" =>
        /\ ciLogProb.outcome = "returned"
        /\ ciLogProb.categories = ciDrawn

-----------------------------------------------------------------------------
(* The claim about UnsqueezedCategorical, checked under SpecUnsq *)

LastDimIsOne(t) == Len(t.shape) > 0 /\ t.shape[Len(t.shape)] = 1

FromSample == ucSample.outcome = "returned" /\ ucLogProb.outcome # "none"

\* What C7 says of sample() and of log_prob applied to its result.
C7_RoundTrip ==
    /\ ucSample.outcome # "none" =>
          /\ ucSample.outcome = "returned"
          /\ ucSample.value.shape = sample_shape \o batch_shape \o <<1>>
          /\ ucSample.value.data = ucDrawn.data
    /\ FromSample =>
          /\ ucLogProb.outcome = "returned"
          /\ ucLogProb.value.shape = sample_shape \o batch_shape
          /\ ucLogProb = Categorical_log_prob(batch_shape, ucDrawn)

\* C7 as stated: sample(sample_shape) has shape sample_shape + batch_shape +
\* (1,); log_prob accepts exactly the samples whose last dimension is 1, with
\* an assertion failure otherwise; so log_prob(sample(sample_shape)) always
\* succeeds, has shape sample_shape + batch_shape and is the plain
\* categorical log-probability of the sampled categories.
C7_LogProbAcceptsExactlyLastDimOne ==
    /\ C7_RoundTrip
    /\ ucLogProb.outcome # "none" =>
          /\ ucLogProb.outcome = "returned" <=> LastDimIsOne(ucArg)
          /\ ucLogProb.outcome = "raised" => ucLogProb.err = "AssertionError"

\* C7 as amended: as stated, except that log_prob accepts a sample exactly
\* when its last dimension is 1 and its remaining dimensions broadcast
\* against batch_shape; a sample of one or more dimensions whose last is not
\* 1 fails the assertion, and a sample of no dimensions fails with IndexError
\* where its last dimension is read.
C7_LogProbAcceptsBroadcastableLastDimOne ==
    /\ C7_RoundTrip
    /\ ucLogProb.outcome # "none" =>
          /\ ucLogProb.outcome = "returned"
                <=> /\ LastDimIsOne(ucArg)
                    /\ Broadcastable(SubSeq(ucArg.shape, 1, Len(ucArg.shape) - 1),
                                     batch_shape)
          /\ (Len(ucArg.shape) > 0 /\ ~LastDimIsOne(ucArg))
                => (ucLogProb.outcome = "raised" /\ ucLogProb.err = "AssertionError")
          /\ Len(ucArg.shape) = 0
                => (ucLogProb.outcome = "raised" /\ ucLogProb.err = "IndexError")
          /\ ucLogProb.outcome = "returned"
                => ucLogProb.value.shape
                      = BroadcastShape(SubSeq(ucArg.shape, 1, Len(ucArg.shape) - 1),
                                       batch_shape)

\* log_prob was applied to a sample of several entries, drawn with a sample
\* shape from a distribution with a batch shape, holding different categories.
C7_Witness ==
    /\ FromSample
    /\ Len(sample_shape) = 1
    /\ Len(batch_shape) = 1
    /\ sample_shape[1] = 2
    /\ batch_shape[1] = 2
    /\ ucLogProb.outcome = "returned"
    /\ \E i, j \in DOMAIN ucDrawn.data : ucDrawn.data[i] # ucDrawn.data[j]

====
